---- MODULE Spec2Model ----
(***************************************************************************)
(* Model of phi.eval.Eval (src/phi/eval/eval.py): one evaluation session   *)
(* whose run() resolves an answer, asks a judge (accuracy evaluator) for   *)
(* a verdict, maps it to an EvalResult and optionally saves it to a file.  *)
(*                                                                         *)
(* run() is synchronous and single-threaded, so one Run action models the  *)
(* whole call.  The steps it took are recorded, in order, in call.trace.   *)
(* The assistant, the caller's callable, the evaluator and the file system *)
(* are external: their behaviour in a run is drawn nondeterministically.   *)
(***************************************************************************)
EXTENDS Integers, Sequences, FiniteSets, TLC

VARIABLES
    name,                 \* Eval.name : Optional[str]
    eval_id,              \* Eval.eval_id : str (after set_eval_id)
    assistant,            \* Eval.assistant : Optional[Assistant]
    question,             \* Eval.question : str
    answer,               \* Eval.answer : Optional[str]
    ideal_answer,         \* Eval.ideal_answer : str
    result,               \* Eval.result : Optional[EvalResult]
    accuracy_evaluator,   \* Eval.accuracy_evaluator : Optional[Assistant]
    accuracy_guidelines,  \* Eval.accuracy_guidelines : Optional[List[str]]
    accuracy_result,      \* Eval.accuracy_result : Optional[AccuracyResult]
    save_result_to_file,  \* Eval.save_result_to_file : Optional[str]
    files,                \* the file system: the set of [path, content] written
    call                  \* the last run() call: its argument, trace and outcome

vars == <<name, eval_id, assistant, question, answer, ideal_answer, result,
          accuracy_evaluator, accuracy_guidelines, accuracy_result,
          save_result_to_file, files, call>>

config == <<name, eval_id, assistant, question, ideal_answer,
            accuracy_guidelines, save_result_to_file>>

-----------------------------------------------------------------------------
(* Values *)

\* Python's None in an Optional[str] field.
None == "<None>"

\* Python's None in a field that holds an object.
NoneObj == [is_none |-> TRUE]

\* str(None), as str.format renders a None argument.
PyStr(v) == IF v = None THEN "None" ELSE v

\* Lower and upper end of the score range the schema's description states.
MinScore == 1
MaxScore == 10

\* Longest guideline list drawn.
MaxGuidelines == 1

AnswerTexts == {"", "a1"}
Questions == {"q1"}
IdealAnswers == {"ideal1"}
\* The name and eval_id given at construction: both left out, or both given.
Identities == {[name |-> None, eval_id |-> None],
               [name |-> "n1", eval_id |-> "id1"]}
\* The (score, reason) pairs the evaluator's model may produce: one inside the
\* stated range, one outside it.
Verdicts == {[score |-> 7, reason |-> "r2"],
             [score |-> MaxScore + 1, reason |-> "r1"]}
CallableErrors == {"KeyError"}

\* What the caller may pass as run(answer=...): nothing, a string, or a
\* zero-argument callable (which returns a string or None, or raises).
AnswerArgs ==
    {[kind |-> "none"]}
    \cup [kind : {"str"}, value : AnswerTexts]
    \cup [kind : {"callable"}, raises : {FALSE}, value : AnswerTexts \cup {None}]
    \cup [kind : {"callable"}, raises : {TRUE}, exc : CallableErrors]

\* What assistant.run(question, stream=False) may do in one run.
AssistantOutcomes ==
    [raises : {FALSE}, value : AnswerTexts \cup {None}]
    \cup [raises : {TRUE}, exc : {"AssistantError"}]

\* What the evaluator's model may produce in one run: a failure, nothing, or a
\* (score, reason) pair still to be validated against the output model.
EvaluatorOutcomes ==
    {[kind |-> "raise", exc |-> "EvaluatorError"], [kind |-> "none"]}
    \cup {[kind |-> "value", score |-> v.score, reason |-> v.reason] :
             v \in Verdicts}

\* What the file system may do with mkdir + write_text in one run.
FileSystemOutcomes == {"ok", "OSError"}

\* Templates for save_result_to_file, as token sequences.
KnownFields == {"{name}", "{eval_id}"}
FieldTokens == KnownFields \cup {"{date}"}
Templates ==
    { <<"out/", "{name}", "/", "{eval_id}", ".json">>,
      <<"out/", "{date}", ".json">> }
NoTemplate == <<>>

\* Guideline lists: None, or the first n of AllGuidelines, n <= MaxGuidelines.
AllGuidelines == <<"g1", "g2", "g3", "g4">>
NoGuidelines == [is_none |-> TRUE]
GuidelineLists == {NoGuidelines} \cup
    {[is_none |-> FALSE, items |-> SubSeq(AllGuidelines, 1, n)] :
        n \in 0..MaxGuidelines}

\* Lists a caller may assign to accuracy_guidelines later on: None, or the
\* first n of AllGuidelines, n <= MaxAssigned, in that order or reversed.
MaxAssigned == 2
Reverse(s) == [i \in 1..Len(s) |-> s[Len(s) + 1 - i]]
AssignableGuidelines == {NoGuidelines} \cup
    {[is_none |-> FALSE, items |-> SubSeq(AllGuidelines, 1, n)] :
        n \in 0..MaxAssigned} \cup
    {[is_none |-> FALSE, items |-> Reverse(SubSeq(AllGuidelines, 1, n))] :
        n \in 0..MaxAssigned}

-----------------------------------------------------------------------------
(* Data classes *)

\* AccuracyResult(score: int, reason: str): what the output model accepts.
AccuracyResultValidates(score, reason) ==
    score \in Int /\ reason \in STRING

AccuracyResult(score, reason) == [score |-> score, reason |-> reason]

\* EvalResult(accuracy_score: int, accuracy_reason: str)
EvalResult(accuracy_score, accuracy_reason) ==
    [accuracy_score |-> accuracy_score, accuracy_reason |-> accuracy_reason]

\* uuid4(): a value no caller supplies.
uuid4 == "uuid-1"

\* set_eval_id: the given id, or a generated one.
set_eval_id(v) == IF v # None THEN v ELSE uuid4

-----------------------------------------------------------------------------
(* The evaluator's instruction *)

GuidelinesHeader == "\nThe AI Assistant's answer must follow these guidelines:\n"
GuidelineSeparator == "\n- "

\* sep.join(items): the items with sep between neighbours.
RECURSIVE Join(_, _)
Join(items, sep) ==
    IF Len(items) = 0 THEN <<>>
    ELSE IF Len(items) = 1 THEN <<items[1]>>
    ELSE <<items[1], sep>> \o Join(Tail(items), sep)

\* A variant that lists the guidelines last to first.
GuidelinesBlock_Reversed(guidelines) ==
    IF guidelines # NoGuidelines /\ Len(guidelines.items) > 0
    THEN <<GuidelinesHeader>>
         \o Join(Reverse(guidelines.items), GuidelineSeparator)
    ELSE <<>>

\* The guideline block of the instruction: empty without guidelines.
GuidelinesBlock(guidelines) ==
    IF guidelines # NoGuidelines /\ Len(guidelines.items) > 0
    THEN <<GuidelinesHeader>> \o Join(guidelines.items, GuidelineSeparator)
    ELSE <<>>

\* The description f-string, as the sequence of its fixed and filled-in parts.
Description(q, ideal, guidelines) ==
    <<"You are an evaluator ... match exactly.",
      "<question>", q, "</question>",
      "<ideal_answer>", ideal, "</ideal_answer>",
      "Compare the Assistant's answer to the ideal answer.",
      "- Accuracy of information",
      "- Completeness of the answer",
      "- Relevance to the question",
      "- Use of similar key concepts or ideas",
      "- Overall structure and presentation">>
    \o GuidelinesBlock(guidelines)
    \o <<"Provide your reasoning ... Mention the guidelines you followed.",
         "Be specific about what the Assistant's answer includes or lacks.",
         "1 = completely different or entirely incorrect",
         "5 = captures some key points but misses others",
         "10 = matches the ideal answer exactly",
         "Only use whole numbers for the score (no decimals).">>

\* An evaluator the caller supplied at construction.
SuppliedEvaluator == [is_none |-> FALSE, origin |-> "supplied",
                      description |-> <<"caller's instruction">>]

\* Assistant(llm=OpenAIChat(...), description=..., output_model=AccuracyResult)
DefaultEvaluator(q, ideal, guidelines) ==
    [is_none |-> FALSE, origin |-> "default",
     description |-> Description(q, ideal, guidelines)]

\* A variant that builds an evaluator on every call.
get_accuracy_evaluator_Rebuilt(cached, q, ideal, guidelines, import_ok) ==
    IF ~import_ok
    THEN [raised |-> TRUE, exc |-> "ImportError", evaluator |-> cached,
          trace |-> <<>>]
    ELSE LET built == DefaultEvaluator(q, ideal, guidelines)
         IN  [raised |-> FALSE, evaluator |-> built,
              trace |-> <<[ev |-> "construct_evaluator",
                           description |-> built.description]>>]

\* get_accuracy_evaluator(): the cached evaluator if there is one; otherwise
\* import the default model (which may fail) and build, cache and return one.
get_accuracy_evaluator(cached, q, ideal, guidelines, import_ok) ==
    IF cached # NoneObj
    THEN [raised |-> FALSE, evaluator |-> cached, trace |-> <<>>]
    ELSE IF ~import_ok
    THEN [raised |-> TRUE, exc |-> "ImportError", evaluator |-> cached,
          trace |-> <<>>]
    ELSE LET built == DefaultEvaluator(q, ideal, guidelines)
         IN  [raised |-> FALSE, evaluator |-> built,
              trace |-> <<[ev |-> "construct_evaluator",
                           description |-> built.description]>>]

-----------------------------------------------------------------------------
(* Answer resolution: run(), up to the check for a missing answer *)

Resolved(value, source, trace) ==
    [raised |-> FALSE, exc |-> None, value |-> value, source |-> source,
     trace |-> trace]
Failed(exc, trace) ==
    [raised |-> TRUE, exc |-> exc, value |-> None, source |-> "nothing",
     trace |-> trace]

\* if self.assistant is not None: answer_to_evaluate = self.assistant.run(...)
AnswerFromAssistant(self_assistant, q, asst_out) ==
    IF self_assistant # NoneObj
    THEN IF asst_out.raises
         THEN Failed(asst_out.exc,
                     <<[ev |-> "assistant.run", question |-> q, raises |-> TRUE]>>)
         ELSE Resolved(asst_out.value, "assistant",
                       <<[ev |-> "assistant.run", question |-> q, raises |-> FALSE,
                          value |-> asst_out.value]>>)
    ELSE Resolved(None, "nothing", <<>>)

\* The branch for answer is None: the assistant is asked first (when there is
\* one), then self.answer, when set, replaces whatever was obtained.
AnswerFromSession(self_assistant, self_answer, q, asst_out) ==
    LET a == AnswerFromAssistant(self_assistant, q, asst_out)
    IN  IF a.raised THEN a
        ELSE IF self_answer # None
        THEN Resolved(self_answer, "self.answer", a.trace)
        ELSE a

\* A variant that raises a new exception in place of the caller's.
OnCallableFailure_Wrapped(exc) == "RuntimeError: Failed to get answer"

\* except Exception as e: logger.error(...); raise
OnCallableFailure(exc) == exc

\* The branch for a given answer: call it if callable, else take it as it is.
AnswerFromArgument(arg) ==
    IF arg.kind = "callable"
    THEN IF arg.raises
         THEN Failed(OnCallableFailure(arg.exc),
                     <<[ev |-> "answer()", raises |-> TRUE]>>)
         ELSE Resolved(arg.value, "callable",
                       <<[ev |-> "answer()", raises |-> FALSE,
                          value |-> arg.value]>>)
    ELSE Resolved(arg.value, "str", <<>>)

\* A variant that lets a set self.answer go before the override.
ResolveAnswer_LiteralFirst(arg, self_assistant, self_answer, q, asst_out) ==
    IF arg.kind = "none" \/ self_answer # None
    THEN AnswerFromSession(self_assistant, self_answer, q, asst_out)
    ELSE AnswerFromArgument(arg)

ResolveAnswer(arg, self_assistant, self_answer, q, asst_out) ==
    IF arg.kind = "none"
    THEN AnswerFromSession(self_assistant, self_answer, q, asst_out)
    ELSE AnswerFromArgument(arg)

\* A variant without the check for a missing answer.
AnswerMissing_Never(answer_to_evaluate) == FALSE

\* if answer_to_evaluate is None: raise ValueError("No Answer to evaluate.")
AnswerMissing(answer_to_evaluate) == answer_to_evaluate = None
NoAnswerError == "ValueError: No Answer to evaluate."

-----------------------------------------------------------------------------
(* Judging, normalisation and persistence *)

\* accuracy_evaluator.run(answer_to_evaluate, stream=False) with
\* output_model=AccuracyResult: a validated AccuracyResult, None, or a failure.
EvaluatorRun(evaluator, text, out) ==
    LET event(raises, value) ==
            [ev |-> "accuracy_evaluator.run",
             description |-> evaluator.description, input |-> text,
             raises |-> raises, value |-> value]
    IN  IF out.kind = "raise"
        THEN [raised |-> TRUE, exc |-> out.exc, value |-> NoneObj,
              trace |-> <<event(TRUE, NoneObj)>>]
        ELSE IF out.kind = "none"
        THEN [raised |-> FALSE, exc |-> None, value |-> NoneObj,
              trace |-> <<event(FALSE, NoneObj)>>]
        ELSE IF AccuracyResultValidates(out.score, out.reason)
        THEN [raised |-> FALSE, exc |-> None,
              value |-> AccuracyResult(out.score, out.reason),
              trace |-> <<event(FALSE, AccuracyResult(out.score, out.reason))>>]
        ELSE [raised |-> TRUE, exc |-> "ValidationError", value |-> NoneObj,
              trace |-> <<event(TRUE, NoneObj)>>]

\* A variant that lets the evaluator's failure out to the caller.
OnEvaluatorFailure_Propagated(exc) == [kind |-> "raise", exc |-> exc]

\* except Exception as e: logger.error(...); return None
OnEvaluatorFailure(exc) == [kind |-> "return", value |-> NoneObj]

\* A variant that brings the score into MinScore..MaxScore.
Normalize_Clamped(self_accuracy_result, self_result) ==
    IF self_accuracy_result # NoneObj
    THEN EvalResult(IF self_accuracy_result.score > MaxScore THEN MaxScore
                    ELSE IF self_accuracy_result.score < MinScore THEN MinScore
                    ELSE self_accuracy_result.score,
                    self_accuracy_result.reason)
    ELSE self_result

\* A variant that keeps a result the session already holds.
Normalize_KeepFirst(self_accuracy_result, self_result) ==
    IF self_result # NoneObj THEN self_result
    ELSE IF self_accuracy_result # NoneObj
    THEN EvalResult(self_accuracy_result.score, self_accuracy_result.reason)
    ELSE self_result

\* if self.accuracy_result is not None: self.result = EvalResult(...)
Normalize(self_accuracy_result, self_result) ==
    IF self_accuracy_result # NoneObj
    THEN EvalResult(self_accuracy_result.score, self_accuracy_result.reason)
    ELSE self_result

\* A variant that uses the template as the path, without filling it in.
FormatTemplate_NotFilledIn(template, nm, id) ==
    [raised |-> FALSE, path |-> template]

\* self.save_result_to_file.format(name=self.name, eval_id=self.eval_id)
RECURSIVE FormatTemplate(_, _, _)
FormatTemplate(template, nm, id) ==
    IF Len(template) = 0 THEN [raised |-> FALSE, path |-> <<>>]
    ELSE LET tok == Head(template)
             rest == FormatTemplate(Tail(template), nm, id)
         IN  IF tok \in FieldTokens /\ tok \notin KnownFields
             THEN [raised |-> TRUE, path |-> <<>>]
             ELSE IF rest.raised THEN rest
             ELSE [raised |-> FALSE,
                   path |-> <<(IF tok = "{name}" THEN PyStr(nm)
                               ELSE IF tok = "{eval_id}" THEN PyStr(id)
                               ELSE tok)>> \o rest.path]

\* self.result.model_dump_json(indent=4): the fields in declaration order.
model_dump_json(res) ==
    << <<"accuracy_score", res.accuracy_score>>,
       <<"accuracy_reason", res.accuracy_reason>> >>

\* fn.write_text(content): the file at fn now holds content.
WriteText(fs, path, content) ==
    {f \in fs : f.path # path} \cup {[path |-> path, content |-> content]}

\* The save step: attempted when a template and a result are there.  failed
\* tells whether the try block raised (exc says what).
SaveResult(template, nm, id, self_result, fs, fs_out) ==
    IF template # NoTemplate /\ self_result # NoneObj
    THEN LET fn == FormatTemplate(template, nm, id)
         IN  IF fn.raised
             THEN [files |-> fs, failed |-> TRUE, exc |-> "KeyError",
                   trace |-> <<[ev |-> "save", status |-> "failed",
                                why |-> "KeyError"]>>]
             ELSE IF fs_out # "ok"
             THEN [files |-> fs, failed |-> TRUE, exc |-> fs_out,
                   trace |-> <<[ev |-> "save", status |-> "failed",
                                why |-> fs_out]>>]
             ELSE [files |-> WriteText(fs, fn.path, model_dump_json(self_result)),
                   failed |-> FALSE, exc |-> None,
                   trace |-> <<[ev |-> "save", status |-> "written",
                                why |-> "ok"]>>]
    ELSE [files |-> fs, failed |-> FALSE, exc |-> None, trace |-> <<>>]

\* A variant that lets the save's failure out to the caller.
OnSaveFailure_Propagated(exc, self_result) == [kind |-> "raise", exc |-> exc]

\* except Exception as e: logger.warning(...), then on to return self.result
OnSaveFailure(exc, self_result) == [kind |-> "return", value |-> self_result]

-----------------------------------------------------------------------------
(* run() *)

Raise(exc) == [kind |-> "raise", exc |-> exc]
Return(value) == [kind |-> "return", value |-> value]

\* The record of one call: its argument, self.answer as the call found it,
\* where the answer came from, the steps taken and how the call ended.
Call(arg, found_answer, source, trace, outcome) ==
    [arg |-> arg, found_answer |-> found_answer, source |-> source,
     trace |-> trace, outcome |-> outcome]

NoCall == Call([kind |-> "none"], None, "nothing", <<>>, [kind |-> "not_called"])

\* A variant that hands over self.answer as the run found it.
EvaluatorInput_AnswerAsFound(answer_to_evaluate, found_answer) == found_answer

\* accuracy_evaluator.run(answer_to_evaluate, stream=False): the text handed
\* to the evaluator is the answer this run resolved.
EvaluatorInput(answer_to_evaluate, found_answer) == answer_to_evaluate

\* The mutable part of the session and its surroundings, as run() finds it.
Pre ==
    [answer |-> answer, result |-> result,
     accuracy_evaluator |-> accuracy_evaluator,
     accuracy_result |-> accuracy_result, files |-> files, call |-> call]

\* run(answer=arg) from state pre, with the surroundings behaving as given:
\* the state it leaves and the record of the call.
RunEffect(pre, arg, asst_out, import_ok, eval_out, fs_out) ==
    LET r == ResolveAnswer(arg, assistant, pre.answer, question, asst_out)
    IN
    IF r.raised
    THEN [pre EXCEPT !.call = Call(arg, pre.answer, r.source, r.trace, Raise(r.exc))]
    ELSE IF AnswerMissing(r.value)
    THEN [pre EXCEPT !.call = Call(arg, pre.answer, r.source, r.trace, Raise(NoAnswerError))]
    ELSE
    LET t1 == r.trace \o <<[ev |-> "self.answer =", value |-> r.value]>>
        g == get_accuracy_evaluator(pre.accuracy_evaluator, question,
                                    ideal_answer, accuracy_guidelines, import_ok)
    IN
    IF g.raised
    THEN [pre EXCEPT !.answer = r.value,
                     !.call = Call(arg, pre.answer, r.source, t1 \o g.trace, Raise(g.exc))]
    ELSE
    LET j == EvaluatorRun(g.evaluator, EvaluatorInput(r.value, pre.answer),
                          eval_out)
        t2 == t1 \o g.trace \o j.trace
    IN
    IF j.raised
    THEN [pre EXCEPT !.answer = r.value,
                     !.accuracy_evaluator = g.evaluator,
                     !.call = Call(arg, pre.answer, r.source, t2, OnEvaluatorFailure(j.exc))]
    ELSE
    LET res == Normalize(j.value, pre.result)
        t3 == t2 \o <<[ev |-> "self.accuracy_result =", value |-> j.value]>>
                 \o (IF j.value # NoneObj
                     THEN <<[ev |-> "self.result =", value |-> res]>>
                     ELSE <<>>)
        sv == SaveResult(save_result_to_file, name, eval_id, res, pre.files,
                         fs_out)
    IN  [answer |-> r.value,
         result |-> res,
         accuracy_evaluator |-> g.evaluator,
         accuracy_result |-> j.value,
         files |-> sv.files,
         call |-> Call(arg, pre.answer, r.source, t3 \o sv.trace,
                       IF sv.failed THEN OnSaveFailure(sv.exc, res)
                       ELSE Return(res))]

\* The surroundings are drawn only as far as run() consults them: the
\* assistant when it is asked, the import when an evaluator must be built, the
\* evaluator when an answer reached it, the file system when a save is due.
Run(arg) ==
    \E asst_out \in (IF arg.kind = "none" /\ assistant # NoneObj
                     THEN AssistantOutcomes
                     ELSE {[raises |-> FALSE, value |-> None]}) :
    \E r \in {ResolveAnswer(arg, assistant, answer, question, asst_out)} :
    \E import_ok \in (IF ~r.raised /\ ~AnswerMissing(r.value)
                         /\ accuracy_evaluator = NoneObj
                      THEN BOOLEAN ELSE {TRUE}) :
    \E eval_out \in (IF ~r.raised /\ ~AnswerMissing(r.value) /\ import_ok
                     THEN EvaluatorOutcomes ELSE {[kind |-> "none"]}) :
    \E fs_out \in (IF ~r.raised /\ ~AnswerMissing(r.value) /\ import_ok
                      /\ eval_out.kind # "raise"
                      /\ save_result_to_file # NoTemplate
                   THEN FileSystemOutcomes ELSE {"ok"}) :
    \E post \in {RunEffect(Pre, arg, asst_out, import_ok, eval_out, fs_out)} :
        /\ answer' = post.answer
        /\ result' = post.result
        /\ accuracy_evaluator' = post.accuracy_evaluator
        /\ accuracy_result' = post.accuracy_result
        /\ files' = post.files
        /\ call' = post.call
        /\ UNCHANGED config

\* e.run()
RunDefault == Run([kind |-> "none"])

\* e.run(answer="...")
RunWithString == \E arg \in AnswerArgs : arg.kind = "str" /\ Run(arg)

\* e.run(answer=fn)
RunWithCallable == \E arg \in AnswerArgs : arg.kind = "callable" /\ Run(arg)

-----------------------------------------------------------------------------
(* Construction *)

\* Eval(name=..., eval_id=..., assistant=..., question=..., answer=...,
\*      ideal_answer=..., accuracy_evaluator=..., accuracy_guidelines=...,
\*      save_result_to_file=...)
Init ==
    /\ \E i \in Identities : name = i.name /\ eval_id = set_eval_id(i.eval_id)
    /\ assistant \in {NoneObj, [is_none |-> FALSE]}
    /\ question \in Questions
    /\ answer \in AnswerTexts \cup {None}
    /\ ideal_answer \in IdealAnswers
    /\ result = NoneObj
    /\ accuracy_evaluator \in {NoneObj, SuppliedEvaluator}
    /\ accuracy_guidelines \in GuidelineLists
    /\ accuracy_result = NoneObj
    /\ save_result_to_file \in Templates \cup {NoTemplate}
    /\ files = {}
    /\ call = NoCall

Next == RunDefault \/ RunWithString \/ RunWithCallable

Spec == Init /\ [][Next]_vars

-----------------------------------------------------------------------------
(* Sessions whose guidelines are reassigned between runs *)

\* e.accuracy_guidelines = g, between two runs.  The call record starts
\* afresh, so that a record always describes a run made under the
\* guidelines the session holds now.
SetGuidelines ==
    /\ \E g \in AssignableGuidelines :
           g # accuracy_guidelines /\ accuracy_guidelines' = g
    /\ call' = NoCall
    /\ UNCHANGED <<name, eval_id, assistant, question, answer, ideal_answer,
                   result, accuracy_evaluator, accuracy_result,
                   save_result_to_file, files>>

\* Sessions without a result file (saving plays no part in the instruction).
InitGuidelines ==
    /\ Init
    /\ name = None
    /\ save_result_to_file = NoTemplate

NextGuidelines == RunDefault \/ RunWithString \/ RunWithCallable \/ SetGuidelines

SpecGuidelines == InitGuidelines /\ [][NextGuidelines]_vars

-----------------------------------------------------------------------------
(* Sessions that evaluate what their assistant says, run after run *)

\* Eval(assistant=..., question=..., ideal_answer=...): no answer given.
InitSubject ==
    /\ Init
    /\ assistant # NoneObj
    /\ answer = None

\* Every run is e.run(), without an answer.
SpecSubject == InitSubject /\ [][RunDefault]_vars

-----------------------------------------------------------------------------
(* Reading a call record *)

EventsIn(c, kind) == SelectSeq(c.trace, LAMBDA e : e.ev = kind)

Called(c) == c.outcome.kind # "not_called"
AssistantRuns(c) == EventsIn(c, "assistant.run")
CallableRuns(c) == EventsIn(c, "answer()")
Constructions(c) == EventsIn(c, "construct_evaluator")
EvaluatorRuns(c) == EventsIn(c, "accuracy_evaluator.run")
Saves(c) == EventsIn(c, "save")

\* The call was made with an override (a string or a callable).
HasOverride(c) == c.arg.kind \in {"str", "callable"}

\* The evaluator was asked in the call and gave a verdict.
GotVerdict(c) ==
    \E i \in DOMAIN EvaluatorRuns(c) :
        ~EvaluatorRuns(c)[i].raises /\ EvaluatorRuns(c)[i].value # NoneObj

\* The call raised exc to its caller.
Raised(c, exc) == c.outcome.kind = "raise" /\ c.outcome.exc = exc

\* The call returned None.
ReturnedNone(c) == c.outcome.kind = "return" /\ c.outcome.value = NoneObj

-----------------------------------------------------------------------------
(* Claims *)

\* C1: with no override and a subject system (assistant) present, the text
\* given to the evaluator and stored in self.answer is the text the assistant
\* returned in that run, also when self.answer was set.
C1_AssistantBeforeLiteral ==
    (Called(call) /\ call.arg.kind = "none" /\ assistant # NoneObj) =>
        \A k \in DOMAIN AssistantRuns(call) :
            (~AssistantRuns(call)[k].raises
             /\ AssistantRuns(call)[k].value # None) =>
                \A i \in DOMAIN EvaluatorRuns(call) :
                    /\ EvaluatorRuns(call)[i].input = AssistantRuns(call)[k].value
                    /\ answer = AssistantRuns(call)[k].value

\* C2: with an override, what is evaluated is the override's value (what the
\* callable returned, when callable), whatever self.answer and the assistant
\* are; the assistant is not asked and self.answer is not the source.
C2_OverrideWins ==
    (Called(call) /\ HasOverride(call)) =>
        /\ Len(AssistantRuns(call)) = 0
        /\ call.source \notin {"self.answer", "assistant"}
        /\ (call.arg.kind = "callable" /\ call.arg.raises) =>
               Len(EvaluatorRuns(call)) = 0
        /\ \A i \in DOMAIN EvaluatorRuns(call) :
               /\ EvaluatorRuns(call)[i].input = call.arg.value
               /\ answer = call.arg.value

C2_Witness ==
    /\ Called(call) /\ call.arg.kind = "callable" /\ ~call.arg.raises
    /\ assistant # NoneObj
    /\ call.found_answer # None /\ call.found_answer # call.arg.value
    /\ Len(EvaluatorRuns(call)) = 1
    /\ EvaluatorRuns(call)[1].input = call.arg.value

\* C3: with no override and self.answer set, the answer comes from self.answer
\* and neither the assistant nor a callable is invoked in that run.
C3_LiteralAnswerAsksNobody ==
    (Called(call) /\ call.arg.kind = "none" /\ call.found_answer # None) =>
        /\ call.source = "self.answer"
        /\ Len(AssistantRuns(call)) = 0
        /\ Len(CallableRuns(call)) = 0

\* No override or one yielding None, no assistant or one yielding None, and
\* self.answer unset when the call began.
NothingYieldsAnAnswer(c, self_answer) ==
    /\ self_answer = None
    /\ \/ /\ c.arg.kind = "none"
          /\ \/ assistant = NoneObj
             \/ \E k \in DOMAIN AssistantRuns(c) :
                    /\ ~AssistantRuns(c)[k].raises
                    /\ AssistantRuns(c)[k].value = None
       \/ c.arg.kind = "callable" /\ ~c.arg.raises /\ c.arg.value = None

\* C4: when nothing yields an answer (no override or one yielding None, no
\* assistant or one yielding None, self.answer unset) run() raises the
\* no-answer error; in a run that raises it the evaluator is neither built
\* nor asked, nothing is saved, and self.answer, self.result, the cached
\* evaluator and the files are as before the call.
C4_NoAnswerRaises ==
    [][ /\ NothingYieldsAnAnswer(call', answer) => Raised(call', NoAnswerError)
        /\ Raised(call', NoAnswerError) =>
              /\ Len(Constructions(call')) = 0
              /\ Len(EvaluatorRuns(call')) = 0
              /\ Len(Saves(call')) = 0
              /\ answer' = answer
              /\ result' = result
              /\ accuracy_result' = accuracy_result
              /\ accuracy_evaluator' = accuracy_evaluator
              /\ files' = files ]_vars

C4_Witness ==
    /\ Raised(call, NoAnswerError)
    /\ call.arg.kind = "none"
    /\ call.found_answer = None
    /\ assistant # NoneObj
    /\ Len(AssistantRuns(call)) = 1
    /\ save_result_to_file # NoTemplate
    /\ answer = None

\* C5: when the override is a callable that raises, run() raises that same
\* exception; nothing else is consulted, the evaluator is not asked, and
\* self.answer, self.result and the cached evaluator are as before the call.
C5_CallableFailurePropagates ==
    [][ (call'.arg.kind = "callable" /\ call'.arg.raises) =>
            /\ Raised(call', call'.arg.exc)
            /\ Len(AssistantRuns(call')) = 0
            /\ call'.source = "nothing"
            /\ Len(Constructions(call')) = 0
            /\ Len(EvaluatorRuns(call')) = 0
            /\ Len(Saves(call')) = 0
            /\ answer' = answer
            /\ result' = result
            /\ accuracy_result' = accuracy_result
            /\ accuracy_evaluator' = accuracy_evaluator
            /\ files' = files ]_vars

C5_Witness ==
    /\ call.arg.kind = "callable" /\ call.arg.raises
    /\ Raised(call, call.arg.exc)
    /\ assistant # NoneObj
    /\ answer # None
    /\ result # NoneObj
    /\ accuracy_evaluator # NoneObj

\* C6: when an answer was resolved and the evaluator's run raises, run()
\* returns None, raises nothing, and makes no attempt to save.
C6_EvaluatorFailureReturnsNone ==
    \A i \in DOMAIN EvaluatorRuns(call) :
        EvaluatorRuns(call)[i].raises =>
            /\ ReturnedNone(call)
            /\ Len(Saves(call)) = 0

C6_Witness ==
    /\ Len(EvaluatorRuns(call)) = 1
    /\ EvaluatorRuns(call)[1].raises
    /\ ReturnedNone(call)
    /\ save_result_to_file # NoTemplate
    /\ result # NoneObj

\* The score lies in the range the schema's description states.
InRange(score) == score \in MinScore..MaxScore

\* C7: a verdict whose score is outside MinScore..MaxScore is rejected, so the
\* run returns None, and no stored, returned or saved result carries a score
\* outside MinScore..MaxScore.
C7_ScoreWithinRange ==
    /\ result # NoneObj => InRange(result.accuracy_score)
    /\ accuracy_result # NoneObj => InRange(accuracy_result.score)
    /\ (call.outcome.kind = "return" /\ call.outcome.value # NoneObj) =>
           InRange(call.outcome.value.accuracy_score)
    /\ \A f \in files : InRange(f.content[1][2])
    /\ \A i \in DOMAIN EvaluatorRuns(call) :
          (EvaluatorRuns(call)[i].value # NoneObj
           /\ ~InRange(EvaluatorRuns(call)[i].value.score)) => ReturnedNone(call)

\* C8: for every verdict (score, reason) the evaluator gave, the run returns,
\* and self.result holds, the result with accuracy_score = score and
\* accuracy_reason = reason.
C8_VerdictMappedOneToOne ==
    \A i \in DOMAIN EvaluatorRuns(call) :
        (~EvaluatorRuns(call)[i].raises
         /\ EvaluatorRuns(call)[i].value # NoneObj) =>
            /\ call.outcome.kind = "return"
            /\ call.outcome.value # NoneObj
            /\ call.outcome.value.accuracy_score = EvaluatorRuns(call)[i].value.score
            /\ call.outcome.value.accuracy_reason = EvaluatorRuns(call)[i].value.reason
            /\ result = call.outcome.value

C8_Witness ==
    /\ GotVerdict(call)
    /\ EvaluatorRuns(call)[1].value.score = 7
    /\ EvaluatorRuns(call)[1].value.reason = "r2"
    /\ call.outcome.kind = "return"
    /\ call.outcome.value.accuracy_score = 7
    /\ call.outcome.value.accuracy_reason = "r2"

\* C9: a failed save (template substitution or file system) does not change
\* what run() returns: the run still returns self.result, populated, and equal
\* to the verdict's mapping when the evaluator gave one; and no run that
\* attempted a save raises.
C9_SaveFailureIsContained ==
    /\ \A k \in DOMAIN Saves(call) :
          Saves(call)[k].status = "failed" =>
              /\ call.outcome.kind = "return"
              /\ call.outcome.value # NoneObj
              /\ call.outcome.value = result
              /\ \A i \in DOMAIN EvaluatorRuns(call) :
                    EvaluatorRuns(call)[i].value # NoneObj =>
                        call.outcome.value =
                            [accuracy_score |-> EvaluatorRuns(call)[i].value.score,
                             accuracy_reason |-> EvaluatorRuns(call)[i].value.reason]
    /\ call.outcome.kind = "raise" => Len(Saves(call)) = 0

C9_Witness ==
    /\ GotVerdict(call)
    /\ Len(Saves(call)) = 1
    /\ Saves(call)[1].status = "failed"
    /\ Saves(call)[1].why = "OSError"
    /\ call.outcome.kind = "return"
    /\ call.outcome.value # NoneObj

\* A template is set and every field in it is one format() is given.
TemplateIsGood(template) ==
    /\ template # NoTemplate
    /\ \A n \in DOMAIN template :
          template[n] \in FieldTokens => template[n] \in KnownFields

\* The template with the session's name and eval_id in place of the fields.
ExpectedPath ==
    [n \in DOMAIN save_result_to_file |->
        IF save_result_to_file[n] = "{name}"
        THEN (IF name = None THEN "None" ELSE name)
        ELSE IF save_result_to_file[n] = "{eval_id}" THEN eval_id
        ELSE save_result_to_file[n]]

\* C10: with a template whose fields are all known, a verdict from the
\* evaluator and a file system that accepts the write, after the run the file
\* at the template with name and eval_id filled in holds the serialization of
\* the result the run returned; without a template no file is ever written.
C10_ResultFileWritten ==
    /\ (/\ TemplateIsGood(save_result_to_file)
        /\ GotVerdict(call)
        /\ \A k \in DOMAIN Saves(call) : Saves(call)[k].why # "OSError") =>
           /\ call.outcome.kind = "return"
           /\ call.outcome.value # NoneObj
           /\ \E f \in files : f.path = ExpectedPath
           /\ \A f \in files :
                 f.path = ExpectedPath =>
                     f.content =
                         << <<"accuracy_score",
                              call.outcome.value.accuracy_score>>,
                            <<"accuracy_reason",
                              call.outcome.value.accuracy_reason>> >>
    /\ save_result_to_file = NoTemplate =>
           (files = {} /\ Len(Saves(call)) = 0)

C10_Witness ==
    /\ GotVerdict(call)
    /\ name = None
    /\ Len(Saves(call)) = 1
    /\ Saves(call)[1].status = "written"
    /\ \E f \in files : f.path = <<"out/", "None", "/", uuid4, ".json">>
    /\ call.found_answer # None
    /\ result.accuracy_score = 7

\* C11: a run given a literal answer whose evaluation succeeds leaves
\* self.answer equal to that answer and self.result equal to the mapping of
\* this run's verdict, whatever result the session held before; no run ever
\* changes eval_id, question or ideal_answer.
C11_RerunReplacesAnswerAndResult ==
    [][/\ (call'.arg.kind = "str" /\ GotVerdict(call')) =>
           /\ answer' = call'.arg.value
           /\ result' # NoneObj
           /\ result'.accuracy_score = EvaluatorRuns(call')[1].value.score
           /\ result'.accuracy_reason = EvaluatorRuns(call')[1].value.reason
           /\ call'.outcome = Return(result')
        /\ eval_id' = eval_id
        /\ question' = question
        /\ ideal_answer' = ideal_answer]_vars

\* A second run with a new literal answer, whose verdict differs from the
\* result of the run that built the evaluator.
C11_Witness ==
    /\ call.arg.kind = "str" /\ GotVerdict(call)
    /\ call.found_answer \notin {None, call.arg.value}
    /\ answer = call.arg.value
    /\ accuracy_evaluator.origin = "default"
    /\ Len(Constructions(call)) = 0
    /\ result.accuracy_score = 7
    /\ \E f \in files : f.content[1][2] # 7

\* C12: an evaluator is built only in a run that finds accuracy_evaluator
\* unset, and at most once in a run; once the session holds an evaluator
\* (built by an earlier run or supplied at construction) no step replaces it,
\* and every later run asks that evaluator, with the instruction it was built
\* with, whatever accuracy_guidelines has been assigned since.
C12_EvaluatorBuiltOnce ==
    [][/\ accuracy_evaluator # NoneObj =>
              accuracy_evaluator' = accuracy_evaluator
       /\ Called(call') =>
           /\ Len(Constructions(call')) <= 1
           /\ Len(Constructions(call')) = 1 => accuracy_evaluator = NoneObj
           /\ accuracy_evaluator # NoneObj =>
                  \A i \in DOMAIN EvaluatorRuns(call') :
                      EvaluatorRuns(call')[i].description =
                          accuracy_evaluator.description]_vars

\* A run under guidelines assigned after the evaluator was built: it asks
\* the cached evaluator, whose instruction is not the one the present
\* guidelines would give.
C12_Witness ==
    /\ Called(call)
    /\ accuracy_evaluator # NoneObj /\ accuracy_evaluator.origin = "default"
    /\ Len(Constructions(call)) = 0
    /\ Len(EvaluatorRuns(call)) = 1
    /\ EvaluatorRuns(call)[1].description = accuracy_evaluator.description
    /\ accuracy_evaluator.description #
           Description(question, ideal_answer, accuracy_guidelines)

\* The assignments of self.answer and of self.result (the normalisation) in a
\* call, and whether every step of one kind comes before every step of another.
AnswerWrites(c) == EventsIn(c, "self.answer =")
Normalizations(c) == EventsIn(c, "self.result =")
Precedes(c, first, second) ==
    \A i, j \in DOMAIN c.trace :
        (c.trace[i].ev = first /\ c.trace[j].ev = second) => i < j

\* C13: a run ends by raising, by returning None or by returning a result.
\* It raises only before the evaluator is asked; it returns None only when
\* the evaluator was asked and gave no verdict; it returns a result only
\* after normalising a verdict of this run.  The evaluator is asked at most
\* once, after the answer was resolved and stored; normalisation happens only
\* after a verdict; a save is attempted only after normalisation and with a
\* template, and a run that attempts one returns the result.
C13_RunFollowsStateMachine ==
    Called(call) =>
        /\ Len(EvaluatorRuns(call)) <= 1
        /\ Len(EvaluatorRuns(call)) = 1 =>
               /\ Len(AnswerWrites(call)) = 1
               /\ Precedes(call, "self.answer =", "accuracy_evaluator.run")
        /\ Len(Normalizations(call)) <= 1
        /\ Len(Normalizations(call)) = 1 =>
               /\ GotVerdict(call)
               /\ Precedes(call, "accuracy_evaluator.run", "self.result =")
        /\ Len(Saves(call)) >= 1 =>
               /\ Len(Normalizations(call)) = 1
               /\ Precedes(call, "self.result =", "save")
               /\ save_result_to_file # NoTemplate
               /\ call.outcome.kind = "return"
               /\ call.outcome.value # NoneObj
        /\ call.outcome.kind = "raise" => Len(EvaluatorRuns(call)) = 0
        /\ ReturnedNone(call) =>
               (Len(EvaluatorRuns(call)) = 1 /\ ~GotVerdict(call))
        /\ (call.outcome.kind = "return" /\ call.outcome.value # NoneObj) =>
               Len(Normalizations(call)) = 1

\* The answer the call resolved is the empty string: given as the override,
\* returned by the callable, held in self.answer by a session without an
\* assistant, or returned by the assistant of a session without self.answer.
ResolvedEmpty(c) ==
    \/ c.arg.kind = "str" /\ c.arg.value = ""
    \/ c.arg.kind = "callable" /\ ~c.arg.raises /\ c.arg.value = ""
    \/ c.arg.kind = "none" /\ assistant = NoneObj /\ c.found_answer = ""
    \/ /\ c.arg.kind = "none" /\ c.found_answer = None
       /\ \E k \in DOMAIN AssistantRuns(c) :
              ~AssistantRuns(c)[k].raises /\ AssistantRuns(c)[k].value = ""

\* C14: an empty string counts as no answer: a run that resolves one raises
\* the no-answer error, stores nothing in self.answer and does not ask the
\* evaluator; the evaluator is never given the empty string.
C14_EmptyAnswerIsNoAnswer ==
    Called(call) =>
        /\ \A i \in DOMAIN EvaluatorRuns(call) :
               EvaluatorRuns(call)[i].input # ""
        /\ ResolvedEmpty(call) =>
               /\ Raised(call, NoAnswerError)
               /\ Len(AnswerWrites(call)) = 0
               /\ Len(EvaluatorRuns(call)) = 0

\* C15: a run that asks the evaluator has assigned self.answer exactly once,
\* before asking, with the answer it resolved; what the evaluator is given is
\* that value, and self.answer still holds it when the run is over, also
\* when the evaluator failed.
C15_AnswerStoredOnceBeforeJudging ==
    (Called(call) /\ Len(EvaluatorRuns(call)) >= 1) =>
        /\ Len(AnswerWrites(call)) = 1
        /\ Precedes(call, "self.answer =", "accuracy_evaluator.run")
        /\ \A i \in DOMAIN EvaluatorRuns(call) :
               /\ EvaluatorRuns(call)[i].input = AnswerWrites(call)[1].value
               /\ EvaluatorRuns(call)[i].input = answer
        /\ HasOverride(call) => answer = call.arg.value

\* A run that replaced the stored answer and whose evaluator then failed.
C15_Witness ==
    /\ Called(call) /\ call.arg.kind = "str"
    /\ call.found_answer \notin {None, call.arg.value}
    /\ Len(EvaluatorRuns(call)) = 1
    /\ EvaluatorRuns(call)[1].raises
    /\ ReturnedNone(call)
    /\ answer = call.arg.value

\* The last of the fixed comparison dimensions of the instruction, and the
\* place of a part in an instruction (0 when it is not there).
LastDimension == "- Overall structure and presentation"
PlaceOf(description, part) ==
    IF \E i \in DOMAIN description : description[i] = part
    THEN CHOOSE i \in DOMAIN description : description[i] = part
    ELSE 0
IsGuidelinePart(part) ==
    \/ part = GuidelinesHeader
    \/ \E k \in DOMAIN AllGuidelines : part = AllGuidelines[k]

\* C16: an evaluator built while accuracy_guidelines is a non-empty list has
\* every guideline of the list in its instruction, as given, in the order of
\* the list and after the fixed comparison dimensions; one built while
\* accuracy_guidelines is None or empty has no guideline part at all.
C16_GuidelinesInInstruction ==
    \A c \in DOMAIN Constructions(call) :
        LET d == Constructions(call)[c].description
            g == accuracy_guidelines
        IN  IF g = NoGuidelines \/ Len(g.items) = 0
            THEN \A i \in DOMAIN d : ~IsGuidelinePart(d[i])
            ELSE /\ PlaceOf(d, LastDimension) > 0
                 /\ \A k \in DOMAIN g.items :
                        PlaceOf(d, g.items[k]) > PlaceOf(d, LastDimension)
                 /\ \A k, l \in DOMAIN g.items :
                        k < l => PlaceOf(d, g.items[k]) < PlaceOf(d, g.items[l])

\* An evaluator built from a list of two guidelines given in an order of the
\* caller's own.
C16_Witness ==
    /\ Len(Constructions(call)) = 1
    /\ accuracy_guidelines # NoGuidelines
    /\ accuracy_guidelines.items = <<"g2", "g1">>
    /\ PlaceOf(accuracy_evaluator.description, "g2") > 0
    /\ PlaceOf(accuracy_evaluator.description, "g2")
           < PlaceOf(accuracy_evaluator.description, "g1")

\* C17: a run that returns a result got a verdict in this very run and
\* returns the mapping of it; a run whose evaluator gave no verdict neither
\* returns a result nor attempts a save.
C17_ResultIsOfThisRun ==
    Called(call) =>
        /\ (call.outcome.kind = "return" /\ call.outcome.value # NoneObj) =>
               /\ GotVerdict(call)
               /\ call.outcome.value =
                      EvalResult(EvaluatorRuns(call)[1].value.score,
                                 EvaluatorRuns(call)[1].value.reason)
        /\ ~GotVerdict(call) => Len(Saves(call)) = 0

\* C18: in a session built with an assistant and no answer, every run
\* without an answer asks the assistant once, and when the assistant returns
\* a text and the run reaches the evaluator, the evaluator is given that
\* text: never the answer an earlier run stored.
C18_EachRunJudgesFreshText ==
    (Called(call) /\ call.arg.kind = "none") =>
        /\ Len(AssistantRuns(call)) = 1
        /\ \A i \in DOMAIN EvaluatorRuns(call) :
               /\ ~AssistantRuns(call)[1].raises
               /\ AssistantRuns(call)[1].value # None =>
                      EvaluatorRuns(call)[i].input = AssistantRuns(call)[1].value

\* C19: the stored result belongs to the stored answer: a step that changes
\* self.answer and leaves a result in self.result has judged the new answer,
\* and the result is the mapping of that verdict.
C19_ResultBelongsToAnswer ==
    [][(answer' # answer /\ result' # NoneObj) =>
           /\ GotVerdict(call')
           /\ EvaluatorRuns(call')[1].input = answer'
           /\ result' = EvalResult(EvaluatorRuns(call')[1].value.score,
                                   EvaluatorRuns(call')[1].value.reason)]_vars

\* What stands right before a guideline in an instruction ("" when the
\* guideline is not there or stands first).
BeforeGuideline(description, guideline) ==
    IF PlaceOf(description, guideline) > 1
    THEN description[PlaceOf(description, guideline) - 1]
    ELSE ""

\* C20: in an instruction built from n >= 1 guidelines every guideline, the
\* first included, is introduced by the item marker: what stands right
\* before it is the same for all of them.
C20_EveryGuidelineHasMarker ==
    \A c \in DOMAIN Constructions(call) :
        LET d == Constructions(call)[c].description
            g == accuracy_guidelines
        IN  (g # NoGuidelines /\ Len(g.items) >= 1) =>
                \A k \in DOMAIN g.items :
                    /\ PlaceOf(d, g.items[k]) > 0
                    /\ BeforeGuideline(d, g.items[k]) =
                           BeforeGuideline(d, g.items[Len(g.items)])

====
